---------------------------- MODULE Spec2Model ----------------------------
(***************************************************************************)
(* Model of converter.py: the PDF -> images converter, the two images ->   *)
(* PDF combiners and the Tkinter shell that runs them on worker threads.   *)
(*                                                                         *)
(* Paths and file names are sequences of one-character strings, so that    *)
(* lower(), endswith(), sort(), strip(), split(';') and the f-string that  *)
(* names a page are computed character by character, as Python does.      *)
(* The file system is one function from absolute path to node.             *)
(***************************************************************************)
EXTENDS Integers, Sequences, FiniteSets, TLC

VARIABLES
    fs,                 \* the file system: absolute path -> node
    fs0,                \* the file system as it was when the calls were issued
    convert_from_path,  \* module global: "installed", or "None" when the import failed
    call,               \* convert_pdf_to_images activations: id -> frame
    comb,               \* the last call of a combiner: arguments and outcome
    entry,              \* App: the text of each Entry widget
    open_out_var,       \* App: open_out_var1, open_out_var2
    status,             \* App: status1, status2
    messagebox,         \* the error dialog shown last
    worker,             \* the worker threads: id -> frame of worker()
    edits               \* how many times the user changed a widget

app == <<entry, open_out_var, status, messagebox, worker, edits>>
vars == <<fs, fs0, convert_from_path, call, comb, app>>

-----------------------------------------------------------------------------
(* Bounds *)

MaxPages == 2       \* pages of a source PDF
MaxFiles == 2       \* entries of an input directory, paths of a file list
MaxEdits == 1       \* widget changes the user makes in one run
NumCalls == 2       \* conversions started in one run

CallIds == 1..NumCalls

-----------------------------------------------------------------------------
(* Characters and strings *)

\* ord(): the code points of the characters the model uses
Ord ==
    (" " :> 32) @@ ("-" :> 45) @@ ("." :> 46) @@ ("/" :> 47) @@ ("0" :> 48) @@
    ("1" :> 49) @@ ("2" :> 50) @@ ("3" :> 51) @@ ("4" :> 52) @@ ("5" :> 53) @@
    ("6" :> 54) @@ ("7" :> 55) @@ ("8" :> 56) @@ ("9" :> 57) @@ (";" :> 59) @@
    ("A" :> 65) @@ ("B" :> 66) @@ ("C" :> 67) @@ ("D" :> 68) @@ ("E" :> 69) @@
    ("F" :> 70) @@ ("G" :> 71) @@ ("H" :> 72) @@ ("I" :> 73) @@ ("J" :> 74) @@
    ("K" :> 75) @@ ("L" :> 76) @@ ("M" :> 77) @@ ("N" :> 78) @@ ("O" :> 79) @@
    ("P" :> 80) @@ ("Q" :> 81) @@ ("R" :> 82) @@ ("S" :> 83) @@ ("T" :> 84) @@
    ("U" :> 85) @@ ("V" :> 86) @@ ("W" :> 87) @@ ("X" :> 88) @@ ("Y" :> 89) @@
    ("Z" :> 90) @@ ("_" :> 95) @@ ("a" :> 97) @@ ("b" :> 98) @@ ("c" :> 99) @@
    ("d" :> 100) @@ ("e" :> 101) @@ ("f" :> 102) @@ ("g" :> 103) @@
    ("h" :> 104) @@ ("i" :> 105) @@ ("j" :> 106) @@ ("k" :> 107) @@
    ("l" :> 108) @@ ("m" :> 109) @@ ("n" :> 110) @@ ("o" :> 111) @@
    ("p" :> 112) @@ ("q" :> 113) @@ ("r" :> 114) @@ ("s" :> 115) @@
    ("t" :> 116) @@ ("u" :> 117) @@ ("v" :> 118) @@ ("w" :> 119) @@
    ("x" :> 120) @@ ("y" :> 121) @@ ("z" :> 122)

Alphabet == DOMAIN Ord

Chr(n) == CHOOSE ch \in Alphabet : Ord[ch] = n

Digits == <<"0", "1", "2", "3", "4", "5", "6", "7", "8", "9">>

RECURSIVE Str(_)
\* str(n) of a natural number, as the f-string formats it: no padding
Str(n) == IF n < 10 THEN <<Digits[n + 1]>>
          ELSE Str(n \div 10) \o <<Digits[(n % 10) + 1]>>

-----------------------------------------------------------------------------
(* os.path *)

Cwd == <<"/", "w">>

Join(dir, name) == IF dir # <<>> /\ dir[Len(dir)] = "/" THEN dir \o name
                   ELSE dir \o <<"/">> \o name

Abspath(p) == IF p # <<>> /\ p[1] = "/" THEN p
              ELSE IF p = <<>> THEN Cwd ELSE Join(Cwd, p)

LastSlash(p) ==
    LET S == {i \in 1..Len(p) : p[i] = "/"}
    IN  IF S = {} THEN 0 ELSE CHOOSE i \in S : \A j \in S : j <= i

RECURSIVE RStripSlash(_)
RStripSlash(p) == IF p # <<>> /\ p[Len(p)] = "/"
                  THEN RStripSlash(SubSeq(p, 1, Len(p) - 1)) ELSE p

Dirname(p) ==
    LET head == SubSeq(p, 1, LastSlash(p))
    IN  IF head # <<>> /\ RStripSlash(head) # <<>> THEN RStripSlash(head) ELSE head

Basename(p) == SubSeq(p, LastSlash(p) + 1, Len(p))

-----------------------------------------------------------------------------
(* File system *)

DirNode == [kind |-> "dir"]
FileNode(d) == [kind |-> "file", data |-> d]

isfile(f, p) == p \in DOMAIN f /\ f[p].kind = "file"
isdir(f, p) == p \in DOMAIN f /\ f[p].kind = "dir"

\* the path and every directory above it, the root excluded
Ancestors(p) ==
    IF Len(p) <= 1 THEN {}
    ELSE {p} \cup {SubSeq(p, 1, i - 1) : i \in {k \in 2..Len(p) : p[k] = "/"}}

\* os.makedirs(p, exist_ok=True) succeeds unless a component is a file
makedirs_ok(f, p) == \A q \in Ancestors(p) : ~isfile(f, q)

makedirs(f, p) ==
    [q \in DOMAIN f \cup Ancestors(p) |-> IF q \in DOMAIN f THEN f[q] ELSE DirNode]

\* open(p, "wb") succeeds when the parent is a directory and p is not one
can_open_wb(f, p) == isdir(f, Dirname(p)) /\ ~isdir(f, p)

write_file(f, p, d) ==
    [q \in DOMAIN f \cup {p} |-> IF q = p THEN FileNode(d) ELSE f[q]]

\* the names directly inside directory d, as a set
listdir(f, d) == {Basename(q) : q \in {r \in DOMAIN f : Len(r) > 1 /\ Dirname(r) = d}}

\* the directories every file system of the model has
RootFs == (<<"/">> :> DirNode) @@ (Cwd :> DirNode)

\* the sequences over S of length at most n
SeqsUpTo(S, n) == UNION {[1..k -> S] : k \in 0..n}

-----------------------------------------------------------------------------
(* Images *)

White == <<255, 255, 255>>

\* an image: mode, size, info dictionary, palette (mode P) and pixel data
Img(mode, info, palette, px) ==
    [mode |-> mode, size |-> <<Len(px), 1>>, info |-> info, palette |-> palette, data |-> px]

RGBImage(px) == Img("RGB", <<>>, <<>>, px)

PageImages == {RGBImage(<< <<0, 0, 0>> >>), RGBImage(<< White >>)}

PngData(im) == [type |-> "png", image |-> im]
PdfData(pages) == [type |-> "pdf", pages |-> pages]
PartialData == [type |-> "partial"]
OldData == [type |-> "old"]

-----------------------------------------------------------------------------
(* Image normalisation (lines 66-76, and the same text at lines 93-103) *)

\* Paste.c MULDIV255 and BLEND8: 8-bit blend of in1 and in2 under a mask
MulDiv255(a, b) == LET tmp == a * b + 128 IN ((tmp \div 256) + tmp) \div 256
Blend8(mask, in1, in2) == MulDiv255(in1, 255 - mask) + MulDiv255(in2, mask)

\* Image.new("RGB", size, color)
ImageNew(size, color) == RGBImage([i \in 1..size[1] |-> color])

\* im.convert("RGB"): L is replicated, P goes through the palette, the alpha
\* of LA and RGBA and the transparency entry of P are dropped
ConvertRGB(im) ==
    RGBImage([i \in 1..Len(im.data) |->
        LET px == im.data[i]
        IN  CASE im.mode = "RGB" -> px
              [] im.mode = "RGBA" -> <<px[1], px[2], px[3]>>
              [] im.mode = "L" -> <<px[1], px[1], px[1]>>
              [] im.mode = "LA" -> <<px[1], px[1], px[1]>>
              [] im.mode = "P" -> im.palette[px[1] + 1]])

\* im.split()[3] of an RGBA image: the alpha band
AlphaBand(im) == [i \in 1..Len(im.data) |-> im.data[i][4]]

\* bg.paste(im, mask=mask) into an RGB image: per channel BLEND8
PasteMask(bg, im, mask) ==
    RGBImage([i \in 1..Len(bg.data) |->
        [ch \in 1..3 |-> Blend8(mask[i], bg.data[i][ch], im.data[i][ch])]])

\* bg.paste(im) into an RGB image: no mask, the source pixels replace the
\* background; an LA source is copied from its (L, L, L, A) storage, any
\* other mode is converted to RGB first
PasteNoMask(bg, im) == ConvertRGB(im)

HasTransparency(im) ==
    im.mode \in {"RGBA", "LA"} \/ (im.mode = "P" /\ "transparency" \in DOMAIN im.info)

Normalize(im) ==
    IF HasTransparency(im)
    THEN LET bg == ImageNew(im.size, White)
         IN  IF im.mode = "RGBA" THEN PasteMask(bg, im, AlphaBand(im))
             ELSE PasteNoMask(bg, im)
    ELSE ConvertRGB(im)

-----------------------------------------------------------------------------
(* The combiners (lines 53-112); each call is one action *)

LowerChar(ch) == IF Ord[ch] >= 65 /\ Ord[ch] <= 90 THEN Chr(Ord[ch] + 32) ELSE ch
Lower(str) == [i \in 1..Len(str) |-> LowerChar(str[i])]

EndsWith(str, suffix) ==
    /\ Len(suffix) <= Len(str)
    /\ SubSeq(str, Len(str) - Len(suffix) + 1, Len(str)) = suffix

EndsWithAny(str, exts) == \E i \in DOMAIN exts : EndsWith(str, exts[i])

\* str.__lt__: comparison by code point, a proper prefix is smaller
RECURSIVE StrLess(_, _)
StrLess(a, b) ==
    IF b = <<>> THEN FALSE
    ELSE IF a = <<>> THEN TRUE
    ELSE IF a[1] # b[1] THEN Ord[a[1]] < Ord[b[1]]
    ELSE StrLess(Tail(a), Tail(b))

RECURSIVE Insert(_, _)
Insert(x, sorted) ==
    IF sorted = <<>> THEN <<x>>
    ELSE IF StrLess(x, Head(sorted)) THEN <<x>> \o sorted
    ELSE <<Head(sorted)>> \o Insert(x, Tail(sorted))

\* variant: the listing order is kept
Sort_ListingOrder(names) == names

RECURSIVE Sort(_)
\* list.sort() on names: ascending
Sort(names) == IF names = <<>> THEN <<>> ELSE Insert(Head(names), Sort(Tail(names)))

\* the exception Image.open(path) raises, "" when it returns an image
OpenError(f, path) ==
    IF path \notin DOMAIN f THEN "FileNotFoundError"
    ELSE IF f[path].kind = "dir" THEN "IsADirectoryError"
    ELSE IF f[path].data.type # "png" THEN "UnidentifiedImageError"
    ELSE ""

\* the loop over the input paths: the first failure aborts it
LoadError(f, paths) ==
    LET bad == {i \in DOMAIN paths : OpenError(f, paths[i]) # ""}
    IN  IF bad = {} THEN ""
        ELSE OpenError(f, paths[CHOOSE i \in bad : \A j \in bad : i <= j])

LoadImages(f, paths) == [i \in DOMAIN paths |-> Normalize(f[paths[i]].data.image)]

SavedPdf(imgs) == [type |-> "pdf", pages |-> imgs, resolution |-> 100]

\* what a call leaves behind: the file system, the value returned or the
\* exception raised, and the paths it opened, in order
Outcome(f, ret, exc, opened) == [fs |-> f, ret |-> ret, exc |-> exc, opened |-> opened]

\* lines 63-85 (and 91-112): open and normalise every path, prepare the
\* output directory, save the first image with the rest appended
Combine(f, paths, output_pdf, io_error) ==
    IF LoadError(f, paths) # "" THEN Outcome(f, <<>>, LoadError(f, paths), paths)
    ELSE
    LET imgs == LoadImages(f, paths)
        out == Abspath(output_pdf)
        output_dir == Dirname(out)
        f1 == IF output_dir # <<>> /\ ~isdir(f, output_dir) /\ makedirs_ok(f, output_dir)
              THEN makedirs(f, output_dir) ELSE f
        all == <<imgs[1]>> \o SubSeq(imgs, 2, Len(imgs))
    IN  IF output_dir # <<>> /\ ~isdir(f, output_dir) /\ ~makedirs_ok(f, output_dir)
        THEN Outcome(f, <<>>, "FileExistsError", paths)
        ELSE IF ~can_open_wb(f1, out) THEN Outcome(f1, <<>>, "IsADirectoryError", paths)
        ELSE IF io_error THEN Outcome(write_file(f1, out, PartialData), <<>>, "OSError", paths)
        ELSE Outcome(write_file(f1, out, SavedPdf(all)), out, "", paths)

\* lines 53-85; listing is the order in which os.listdir returns the names
images_to_pdf(f, images_dir, output_pdf, exts, listing, io_error) ==
    LET dir == Abspath(images_dir)
        files == SelectSeq(listing, LAMBDA n : EndsWithAny(Lower(n), exts))
        sorted == Sort(files)
    IN  IF ~isdir(f, dir) THEN Outcome(f, <<>>, "FileNotFoundError", <<>>)
        ELSE IF files = <<>> THEN Outcome(f, <<>>, "FileNotFoundError", <<>>)
        ELSE Combine(f, [i \in DOMAIN sorted |-> Join(dir, sorted[i])], output_pdf, io_error)

\* variant: the paths are put in order before they are combined
images_to_pdf_from_files_Sorted(f, file_paths, output_pdf, io_error) ==
    IF file_paths = <<>> THEN Outcome(f, <<>>, "FileNotFoundError", <<>>)
    ELSE Combine(f, Sort(file_paths), output_pdf, io_error)

\* variant: an empty list yields an empty document
images_to_pdf_from_files_NoEmptyCheck(f, file_paths, output_pdf, io_error) ==
    IF file_paths = <<>>
    THEN Outcome(write_file(makedirs(f, Dirname(Abspath(output_pdf))), Abspath(output_pdf),
                            SavedPdf(<<>>)), Abspath(output_pdf), "", <<>>)
    ELSE Combine(f, file_paths, output_pdf, io_error)

\* lines 88-112
images_to_pdf_from_files(f, file_paths, output_pdf, io_error) ==
    IF file_paths = <<>> THEN Outcome(f, <<>>, "FileNotFoundError", <<>>)
    ELSE Combine(f, file_paths, output_pdf, io_error)

\* every order in which a set of names can be listed
Listings(S) == {l \in [1..Cardinality(S) -> S] : \A i, j \in DOMAIN l : i # j => l[i] # l[j]}

Ready == [pc |-> "ready"]

Done(fn, images_dir, file_paths, output_pdf, exts, listing, r) ==
    [pc |-> IF r.exc = "" THEN "returned" ELSE "raised", fn |-> fn,
     images_dir |-> images_dir, file_paths |-> file_paths, output_pdf |-> output_pdf,
     exts |-> exts, listing |-> listing, ret |-> r.ret, exc |-> r.exc, opened |-> r.opened]

StdExts == << <<".", "p", "n", "g">>, <<".", "j", "p", "g">>, <<".", "j", "p", "e", "g">> >>

ExtArgs == {StdExts, << <<".", "P", "N", "G">> >>}
ImagesDirArgs == {<<"/", "d">>, <<"/", "e">>}
OutPdfArgs == {<<"c">>, <<"/", "o", "/", "c">>}

Call_images_to_pdf ==
    /\ comb.pc = "ready"
    /\ \E images_dir \in ImagesDirArgs, output_pdf \in OutPdfArgs, exts \in ExtArgs,
          io_error \in BOOLEAN :
         \E listing \in Listings(listdir(fs, Abspath(images_dir))) :
            LET r == images_to_pdf(fs, images_dir, output_pdf, exts, listing, io_error)
            IN  /\ fs' = r.fs
                /\ comb' = Done("images_to_pdf", images_dir, <<>>, output_pdf, exts, listing, r)
    /\ UNCHANGED <<fs0, convert_from_path, call, app>>

Call_images_to_pdf_from_files ==
    /\ comb.pc = "ready"
    /\ \E file_paths \in SeqsUpTo({p \in DOMAIN fs : Dirname(p) = <<"/", "d">>}, MaxFiles),
          output_pdf \in OutPdfArgs, io_error \in BOOLEAN :
            LET r == images_to_pdf_from_files(fs, file_paths, output_pdf, io_error)
            IN  /\ fs' = r.fs
                /\ comb' = Done("images_to_pdf_from_files", <<>>, file_paths, output_pdf,
                                <<>>, <<>>, r)
    /\ UNCHANGED <<fs0, convert_from_path, call, app>>

\* the images the input files may hold
ImageCatalogue ==
    LET pal == << <<0, 0, 0>>, <<0, 255, 0>> >>
    IN  { RGBImage(<< <<0, 0, 0>> >>),
          Img("RGBA", <<>>, <<>>, << <<0, 0, 0, 0>>, <<0, 0, 255, 255>>, <<255, 0, 0, 128>> >>),
          Img("LA", <<>>, <<>>, << <<0, 0>>, <<0, 255>> >>),
          Img("P", [k \in {"transparency"} |-> 0], pal, << <<0>>, <<1>> >>),
          Img("P", <<>>, pal, << <<1>>, <<0>> >>),
          Img("L", <<>>, <<>>, << <<128>> >>) }

\* a directory entry is an image file, a file that is no image, or a directory
EntryNodes == {FileNode(PngData(im)) : im \in ImageCatalogue} \cup {FileNode(OldData), DirNode}

NameCatalogue ==
    { <<"b", ".", "p", "n", "g">>, <<"a", ".", "P", "N", "G">>,
      <<"B", ".", "j", "p", "e", "g">>, <<"a", ".", "p", "n", "g", ".", "t", "x", "t">> }

CombFsChoices ==
    LET d == <<"/", "d">>
        base == RootFs @@ (d :> DirNode) @@ (Join(Cwd, <<"c">>) :> FileNode(OldData))
    IN  UNION { {base @@ [p \in {Join(d, n) : n \in names} |-> nodes[Basename(p)]] :
                   nodes \in [names -> EntryNodes]} :
                names \in {N \in SUBSET NameCatalogue : Cardinality(N) <= MaxFiles} }


-----------------------------------------------------------------------------
(* convert_pdf_to_images (lines 34-50): one action for what precedes the  *)
(* loop, one for each iteration, one for the return                        *)

Idle == [pc |-> "idle"]

\* the frame of a fresh activation
Frame(pdf, poppler, out) ==
    [pc |-> "L35", pdf_path |-> pdf, poppler_path |-> poppler, output_dir |-> out,
     pages |-> <<>>, counter |-> 0, ret |-> -1, exc |-> "", saved |-> <<>>]

Raise(c, e) == call' = [call EXCEPT ![c].pc = "raised", ![c].exc = e]

img_name(counter) == <<"p", "a", "g", "e", "_">> \o Str(counter) \o <<".", "p", "n", "g">>

\* line 44: what the rasterizer does with the PDF: it returns every page, in
\* page order, or raises (Poppler missing, unreadable PDF)
Rasterized(c, pdf, out, ok) ==
    IF ok /\ fs[pdf].data.type = "pdf"
    THEN call' = [call EXCEPT ![c].pc = "L46", ![c].pdf_path = pdf, ![c].output_dir = out,
                              ![c].counter = 1, ![c].pages = fs[pdf].data.pages]
    ELSE Raise(c, "PDFPageCountError")

\* variant: the output directory is prepared before the PDF is looked at
Pdf_Enter_DirsFirst(c) ==
    /\ call[c].pc = "L35"
    /\ \E pdf \in {Abspath(call[c].pdf_path)}, out \in {Abspath(call[c].output_dir)},
          ok \in BOOLEAN :
         /\ fs' = IF ~isdir(fs, out) /\ makedirs_ok(fs, out) THEN makedirs(fs, out) ELSE fs
         /\ IF ~isfile(fs, pdf) THEN Raise(c, "FileNotFoundError")
            ELSE IF ~isdir(fs, out) /\ ~makedirs_ok(fs, out) THEN Raise(c, "FileExistsError")
            ELSE IF convert_from_path = "None" THEN Raise(c, "RuntimeError")
            ELSE Rasterized(c, pdf, out, ok)
    /\ UNCHANGED <<fs0, convert_from_path, comb, app>>

\* lines 35-45: everything before the loop. The PDF is looked up, the output
\* directory is made if it is missing, the rasterizer is looked up and called.
Pdf_Enter(c) ==
    /\ call[c].pc = "L35"
    /\ \E pdf \in {Abspath(call[c].pdf_path)}, out \in {Abspath(call[c].output_dir)},
          ok \in BOOLEAN :
         IF ~isfile(fs, pdf)
         THEN Raise(c, "FileNotFoundError") /\ UNCHANGED fs
         ELSE IF isdir(fs, out)
         THEN /\ UNCHANGED fs
              /\ IF convert_from_path = "None" THEN Raise(c, "RuntimeError")
                 ELSE Rasterized(c, pdf, out, ok)
         ELSE IF ~makedirs_ok(fs, out)
         THEN Raise(c, "FileExistsError") /\ UNCHANGED fs
         ELSE /\ fs' = makedirs(fs, out)
              /\ IF convert_from_path = "None" THEN Raise(c, "RuntimeError")
                 ELSE Rasterized(c, pdf, out, ok)
    /\ UNCHANGED <<fs0, convert_from_path, comb, app>>

\* lines 46-49, one iteration
Pdf_SavePage(c) ==
    /\ call[c].pc = "L46"
    /\ call[c].counter <= Len(call[c].pages)
    /\ \E name \in {img_name(call[c].counter)} : \E path \in {Join(call[c].output_dir, name)} :
           IF can_open_wb(fs, path)
           THEN /\ fs' = write_file(fs, path, PngData(call[c].pages[call[c].counter]))
                /\ call' = [call EXCEPT ![c].counter = @ + 1,
                                        ![c].saved = Append(@, name)]
           ELSE /\ Raise(c, IF isdir(fs, path) THEN "IsADirectoryError"
                                               ELSE "FileNotFoundError")
                /\ UNCHANGED fs
    /\ UNCHANGED <<fs0, convert_from_path, comb, app>>

\* variant: a failed save removes the pages this call already wrote
Pdf_SavePageFails_Cleanup(c) ==
    /\ call[c].pc = "L46"
    /\ call[c].counter <= Len(call[c].pages)
    /\ LET path == Join(call[c].output_dir, img_name(call[c].counter))
           mine == {Join(call[c].output_dir, call[c].saved[i]) : i \in DOMAIN call[c].saved}
       IN  /\ can_open_wb(fs, path)
           /\ fs' = [q \in DOMAIN fs \ mine |-> fs[q]]
    /\ Raise(c, "OSError")
    /\ UNCHANGED <<fs0, convert_from_path, comb, app>>

\* line 48 raises while writing (disk full, device error): the file was
\* opened for writing and holds whatever was flushed
Pdf_SavePageFails(c) ==
    /\ call[c].pc = "L46"
    /\ call[c].counter <= Len(call[c].pages)
    /\ LET path == Join(call[c].output_dir, img_name(call[c].counter))
       IN  /\ can_open_wb(fs, path)
           /\ fs' = write_file(fs, path, PartialData)
    /\ Raise(c, "OSError")
    /\ UNCHANGED <<fs0, convert_from_path, comb, app>>

\* variant: the counter is returned without the final decrement
Pdf_Return_NoDecrement(c) ==
    /\ call[c].pc = "L46"
    /\ call[c].counter > Len(call[c].pages)
    /\ call' = [call EXCEPT ![c].pc = "returned", ![c].ret = call[c].counter]
    /\ UNCHANGED <<fs, fs0, convert_from_path, comb, app>>

\* line 50
Pdf_Return(c) ==
    /\ call[c].pc = "L46"
    /\ call[c].counter > Len(call[c].pages)
    /\ call' = [call EXCEPT ![c].pc = "returned", ![c].ret = call[c].counter - 1]
    /\ UNCHANGED <<fs, fs0, convert_from_path, comb, app>>

Pdf_Step(c) ==
    \/ Pdf_Enter(c)
    \/ Pdf_SavePage(c)
    \/ Pdf_SavePageFails(c)
    \/ Pdf_Return(c)

-----------------------------------------------------------------------------
(* App (lines 115-298) *)

Here == <<"/", "w">>
default_pdf == Join(Dirname(Here), <<"S", "A", "M", "P", "L", "E", " ", "P", "A", "G", "E", ".", "p", "d", "f">>)
default_out_folder == Join(Here, <<"C", "o", "n", "v", "e", "r", "t", "e", "d", " ", "i", "m", "a", "g", "e", "s">>)
default_output_pdf == Join(Here, <<"c", "o", "m", "b", "i", "n", "e", "d", "_", "i", "m", "a", "g", "e", "s", ".", "p", "d", "f">>)

RECURSIVE LStrip(_)
LStrip(t) == IF t # <<>> /\ t[1] = " " THEN LStrip(Tail(t)) ELSE t
RECURSIVE RStrip(_)
RStrip(t) == IF t # <<>> /\ t[Len(t)] = " " THEN RStrip(SubSeq(t, 1, Len(t) - 1)) ELSE t
\* str.strip()
Strip(t) == RStrip(LStrip(t))

\* str.split(sep): the pieces between separators, empty pieces included
SplitStr(t, sep) ==
    LET S == {i \in 1..Len(t) : t[i] = sep}
        n == Cardinality(S)
        Pos(k) == IF k = 0 THEN 0
                  ELSE IF k = n + 1 THEN Len(t) + 1
                  ELSE CHOOSE i \in S : Cardinality({j \in S : j < i}) = k - 1
    IN  [k \in 1..(n + 1) |-> SubSeq(t, Pos(k - 1) + 1, Pos(k) - 1)]

RECURSIVE JoinStr(_, _)
\* sep.join(parts)
JoinStr(parts, sep) ==
    IF parts = <<>> THEN <<>>
    ELSE IF Len(parts) = 1 THEN parts[1]
    ELSE parts[1] \o <<sep>> \o JoinStr(Tail(parts), sep)

\* a text shown to the user: the format string and the values it is filled with
StatusText(t) == [text |-> t]

\* App.__init__ (lines 116-186)
AppInit(f) ==
    /\ entry = [pdf_entry |-> IF default_pdf \in DOMAIN f THEN default_pdf ELSE <<>>,
                poppler_entry |-> <<>>,
                out_folder_entry |-> default_out_folder,
                input_entry |-> <<>>,
                output_pdf_entry |-> default_output_pdf]
    /\ open_out_var = <<TRUE, TRUE>>
    /\ status = <<StatusText("Ready"), StatusText("Ready")>>
    /\ messagebox = StatusText("")
    /\ worker = [c \in CallIds |-> [pc |-> "none"]]
    /\ edits = 0

\* no App exists: the variables of the shell keep a fixed value
NoApp ==
    /\ entry = <<>>
    /\ open_out_var = <<TRUE, TRUE>>
    /\ status = <<StatusText("Ready"), StatusText("Ready")>>
    /\ messagebox = StatusText("")
    /\ worker = [c \in CallIds |-> [pc |-> "none"]]
    /\ edits = 0

\* entry.delete(0, END); entry.insert(0, text)
SetEntry(e, text) ==
    /\ edits < MaxEdits
    /\ entry' = [entry EXCEPT ![e] = text]
    /\ edits' = edits + 1
    /\ UNCHANGED <<fs, fs0, convert_from_path, call, comb, open_out_var, status,
                   messagebox, worker>>

\* what the file dialogs can return besides the empty answer of Cancel
PdfChoices == {<<"/", "a">>}
DirChoices == {<<"/", "o">>}
FilesChoices == {<< <<"/", "d", "/", "b", ".", "p", "n", "g">>, <<"/", "d", "/", "a", ".", "p", "n", "g">> >>}
SavePdfChoices == {<<"/", "o", "/", "c">>}
TypedTexts ==
    [pdf_entry |-> {<<" ">>}, poppler_entry |-> {}, out_folder_entry |-> {<<" ">>},
     input_entry |-> {<<" ", "/", "d">>}, output_pdf_entry |-> {<<" ">>}]

\* lines 189-193
browse_pdf == \E p \in PdfChoices : SetEntry("pdf_entry", p)
\* lines 195-199
browse_poppler == \E p \in DirChoices : SetEntry("poppler_entry", p)
\* lines 201-205
browse_out_folder == \E p \in DirChoices : SetEntry("out_folder_entry", p)
\* lines 213-219
browse_images_files == \E files \in FilesChoices : SetEntry("input_entry", JoinStr(files, ";"))
\* lines 221-226
browse_output_pdf == \E p \in SavePdfChoices : SetEntry("output_pdf_entry", p)
\* the user types into an Entry widget
type_text == \E e \in DOMAIN entry : \E t \in TypedTexts[e] : SetEntry(e, t)
\* the user clicks an "Open folder when done" Checkbutton
toggle_open_out ==
    /\ edits < MaxEdits
    /\ \E t \in 1..2 : open_out_var' = [open_out_var EXCEPT ![t] = ~@]
    /\ edits' = edits + 1
    /\ UNCHANGED <<fs, fs0, convert_from_path, call, comb, entry, status, messagebox, worker>>

\* the identifier of the next thread, 0 when the model keeps no more
NextWorker ==
    LET free == {c \in CallIds : worker[c].pc = "none"}
    IN  IF free = {} THEN 0 ELSE CHOOSE c \in free : \A k \in free : c <= k

\* lines 229-259
start_pdf_to_images ==
    LET pdf == Strip(entry.pdf_entry)
        poppler == Strip(entry.poppler_entry)
        out == Strip(entry.out_folder_entry)
        open_when_done == open_out_var[1]
        c == NextWorker
    IN  IF pdf = <<>>
        THEN /\ messagebox' = StatusText("Please select a PDF file.")
             /\ UNCHANGED <<fs, fs0, convert_from_path, call, comb, entry, open_out_var,
                            status, worker, edits>>
        ELSE IF out = <<>>
        THEN /\ messagebox' = StatusText("Please select an output folder.")
             /\ UNCHANGED <<fs, fs0, convert_from_path, call, comb, entry, open_out_var,
                            status, worker, edits>>
        ELSE /\ c # 0
             /\ status' = [status EXCEPT ![1] = StatusText("Converting...")]
             /\ worker' = [worker EXCEPT ![c] =
                    [pc |-> "convert", tab |-> 1, inp |-> pdf, out |-> out,
                     open_when_done |-> open_when_done, conv |-> "running",
                     result |-> <<>>, exc |-> "", revealed |-> <<>>, wrote |-> ""]]
             /\ call' = [call EXCEPT ![c] = Frame(pdf, poppler, out)]
             /\ UNCHANGED <<fs, fs0, convert_from_path, comb, entry, open_out_var,
                            messagebox, edits>>

\* lines 261-298
start_images_to_pdf ==
    LET inp == Strip(entry.input_entry)
        out == Strip(entry.output_pdf_entry)
        open_when_done == open_out_var[2]
        c == NextWorker
    IN  IF inp = <<>>
        THEN /\ messagebox' = StatusText("Please select an input folder or files.")
             /\ UNCHANGED <<fs, fs0, convert_from_path, call, comb, entry, open_out_var,
                            status, worker, edits>>
        ELSE IF out = <<>>
        THEN /\ messagebox' = StatusText("Please select an output PDF path.")
             /\ UNCHANGED <<fs, fs0, convert_from_path, call, comb, entry, open_out_var,
                            status, worker, edits>>
        ELSE /\ c # 0
             /\ status' = [status EXCEPT ![2] = StatusText("Converting...")]
             /\ worker' = [worker EXCEPT ![c] =
                    [pc |-> "convert", tab |-> 2, inp |-> inp, out |-> out,
                     open_when_done |-> open_when_done, conv |-> "running",
                     result |-> <<>>, exc |-> "", revealed |-> <<>>, wrote |-> ""]]
             /\ UNCHANGED <<fs, fs0, convert_from_path, call, comb, entry, open_out_var,
                            messagebox, edits>>

\* the converter a worker called has returned / has raised
ConvReturned(c) == IF worker[c].tab = 1 THEN call[c].pc = "returned" ELSE worker[c].conv = "returned"
ConvRaised(c) == IF worker[c].tab = 1 THEN call[c].pc = "raised" ELSE worker[c].conv = "raised"
ConvExc(c) == IF worker[c].tab = 1 THEN call[c].exc ELSE worker[c].exc

\* line 247: the worker of tab 1 is inside convert_pdf_to_images
W_PdfStep(c) ==
    /\ worker[c].pc = "convert" /\ worker[c].tab = 1
    /\ Pdf_Step(c)

\* lines 278-285: the worker of tab 2 picks a combiner and runs it
W_ImagesConvert(c) ==
    /\ worker[c].pc = "convert" /\ worker[c].tab = 2 /\ worker[c].conv = "running"
    /\ LET inp == worker[c].inp
           out == worker[c].out
           pieces == SelectSeq(SplitStr(inp, ";"), LAMBDA q : q # <<>>)
           files == SelectSeq(pieces, LAMBDA q : isfile(fs, Abspath(q)))
       IN  \E io_error \in BOOLEAN :
           \E listing \in Listings(listdir(fs, Abspath(inp))) :
             LET r == IF isdir(fs, Abspath(inp))
                      THEN images_to_pdf(fs, inp, out, StdExts, listing, io_error)
                      ELSE IF files = <<>>
                      THEN Outcome(fs, <<>>, "FileNotFoundError", <<>>)
                      ELSE images_to_pdf_from_files(fs, files, out, io_error)
             IN  /\ fs' = r.fs
                 /\ worker' = [worker EXCEPT ![c].conv = IF r.exc = "" THEN "returned" ELSE "raised",
                                             ![c].result = r.ret, ![c].exc = r.exc]
    /\ UNCHANGED <<fs0, convert_from_path, call, comb, entry, open_out_var, status,
                   messagebox, edits>>

\* the status a worker shows after a conversion that returned
DoneStatus(c) ==
    IF worker[c].tab = 1
    THEN [text |-> "Done - {count} pages saved to {out}", count |-> call[c].ret,
          out |-> worker[c].out]
    ELSE [text |-> "Done - wrote PDF: {result}", result |-> worker[c].result]

ErrorStatus(e) == [text |-> "Error: {exc}", exc |-> e]

\* lines 248-249 and 287-288
W_SetDone(c) ==
    /\ worker[c].pc = "convert" /\ ConvReturned(c)
    /\ status' = [status EXCEPT ![worker[c].tab] = DoneStatus(c)]
    /\ worker' = [worker EXCEPT ![c].wrote = "Done",
                                ![c].pc = IF worker[c].open_when_done THEN "reveal"
                                          ELSE "finished"]
    /\ UNCHANGED <<fs, fs0, convert_from_path, call, comb, entry, open_out_var,
                   messagebox, edits>>

\* the folder os.startfile is asked to open
RevealTarget(c) ==
    IF worker[c].tab = 1 THEN worker[c].out
    ELSE IF Dirname(worker[c].result) # <<>> THEN Dirname(worker[c].result) ELSE Cwd

\* lines 250-251 and 289-290: os.startfile opens the folder
W_Reveal(c) ==
    /\ worker[c].pc = "reveal"
    /\ worker' = [worker EXCEPT ![c].pc = "finished", ![c].revealed = RevealTarget(c)]
    /\ UNCHANGED <<fs, fs0, convert_from_path, call, comb, entry, open_out_var, status,
                   messagebox, edits>>

\* variant: the failure of os.startfile reaches the outer handler
W_RevealFails_Escalates(c) ==
    /\ worker[c].pc = "reveal"
    /\ messagebox' = [text |-> "Conversion failed: {exc}", exc |-> "OSError"]
    /\ worker' = [worker EXCEPT ![c].pc = "set_error", ![c].exc = "OSError"]
    /\ UNCHANGED <<fs, fs0, convert_from_path, call, comb, entry, open_out_var, status,
                   edits>>

\* lines 250-253 and 289-292: os.startfile raises and the failure is dropped
W_RevealFails(c) ==
    /\ worker[c].pc = "reveal"
    /\ worker' = [worker EXCEPT ![c].pc = "finished"]
    /\ UNCHANGED <<fs, fs0, convert_from_path, call, comb, entry, open_out_var, status,
                   messagebox, edits>>

\* lines 254-256 and 293-295: the converter raised; the dialog is shown
W_ShowError(c) ==
    /\ worker[c].pc = "convert" /\ ConvRaised(c)
    /\ messagebox' = [text |-> "Conversion failed: {exc}", exc |-> ConvExc(c)]
    /\ worker' = [worker EXCEPT ![c].pc = "set_error", ![c].exc = ConvExc(c)]
    /\ UNCHANGED <<fs, fs0, convert_from_path, call, comb, entry, open_out_var, status,
                   edits>>

\* lines 257 and 296
W_SetError(c) ==
    /\ worker[c].pc = "set_error"
    /\ status' = [status EXCEPT ![worker[c].tab] = ErrorStatus(worker[c].exc)]
    /\ worker' = [worker EXCEPT ![c].pc = "finished", ![c].wrote = "Error"]
    /\ UNCHANGED <<fs, fs0, convert_from_path, call, comb, entry, open_out_var,
                   messagebox, edits>>

\* a step of worker thread c inside the converter it called
ConverterStep(c) ==
    \/ W_PdfStep(c)
    \/ W_ImagesConvert(c)

\* a step of worker thread c around the call: status, dialog, reveal
WrapperStep(c) ==
    \/ W_SetDone(c)
    \/ W_Reveal(c)
    \/ W_RevealFails(c)
    \/ W_ShowError(c)
    \/ W_SetError(c)

WorkerStep(c) == ConverterStep(c) \/ WrapperStep(c)

\* worker c is inside its converter: exactly then ConverterStep(c) is enabled
ConverterRuns(c) ==
    /\ worker[c].pc = "convert"
    /\ IF worker[c].tab = 1 THEN call[c].pc \in {"L35", "L46"}
       ELSE worker[c].conv = "running"

UserStep ==
    \/ browse_pdf
    \/ browse_poppler
    \/ browse_out_folder
    \/ browse_images_files
    \/ browse_output_pdf
    \/ type_text
    \/ toggle_open_out
    \/ start_pdf_to_images
    \/ start_images_to_pdf

-----------------------------------------------------------------------------
(* The running application *)

OnePage == << RGBImage(<< <<0, 0, 0>> >>) >>

UIFsChoices ==
    LET d == <<"/", "d">>
        base == RootFs @@ (<<"/", "a">> :> FileNode(PdfData(OnePage))) @@ (d :> DirNode)
                  @@ (Join(d, <<"b", ".", "p", "n", "g">>) :> FileNode(PngData(RGBImage(<< White >>))))
                  @@ (Join(d, <<"a", ".", "p", "n", "g">>) :>
                        FileNode(PngData(Img("RGBA", <<>>, <<>>, << <<0, 0, 0, 0>> >>))))
    IN  {base, base @@ (default_pdf :> FileNode(PdfData(OnePage)))}

InitUI ==
    /\ convert_from_path = "installed"
    /\ fs \in UIFsChoices
    /\ fs0 = fs
    /\ call = [c \in CallIds |-> Idle]
    /\ comb = Ready
    /\ AppInit(fs)

NextUI == UserStep \/ \E c \in CallIds : WorkerStep(c)

\* The threads are scheduled, the libraries return and the error dialog is
\* dismissed: a worker that can take a step takes one.  For the steps inside
\* the converter the weak fairness condition is written out, with
\* ConverterRuns(c) for ENABLED <<ConverterStep(c)>>_vars; every such step
\* moves the frame of the call or of the worker.
Fairness ==
    \A c \in CallIds :
        /\ WF_vars(WrapperStep(c))
        /\ <>[]ConverterRuns(c) =>
              []<><<(call'[c] # call[c] \/ worker'[c] # worker[c]) /\ ConverterStep(c)>>_vars

SpecUI == InitUI /\ [][NextUI]_vars /\ Fairness

-----------------------------------------------------------------------------
(* One call of convert_pdf_to_images on an arbitrary small file system *)

PdfPathArgs == {<<"/", "a">>, <<"a">>}
OutDirArgs == {<<"/", "o">>, <<"o", "/", "n">>}

\* what may already be on disk where the PDF should be
PdfFsChoices ==
    {RootFs} \cup {RootFs @@ (p :> FileNode(PdfData(pg))) :
                     p \in {<<"/", "a">>, <<"/", "w", "/", "a">>},
                     pg \in SeqsUpTo(PageImages, MaxPages)}

\* what may already be on disk where the output goes
OutFsChoices ==
    LET o == <<"/", "o">>
        won == <<"/", "w", "/", "o", "/", "n">>
    IN  { <<>>,
          (o :> DirNode),
          (o :> FileNode(OldData)),
          (o :> DirNode) @@ (Join(o, img_name(1)) :> FileNode(OldData)),
          (o :> DirNode) @@ (Join(o, img_name(2)) :> DirNode),
          (o :> DirNode) @@ (Join(o, img_name(MaxPages + 1)) :> FileNode(OldData)),
          (Dirname(Dirname(won)) :> DirNode) @@ (Dirname(won) :> DirNode) @@ (won :> DirNode)
              @@ (Join(won, img_name(1)) :> FileNode(OldData)) }

InitPdf ==
    /\ convert_from_path \in {"installed", "None"}
    /\ \E f1 \in PdfFsChoices, f2 \in OutFsChoices : fs = f1 @@ f2
    /\ fs0 = fs
    /\ comb = [pc |-> "ready"]
    /\ \E pdf \in PdfPathArgs, out \in OutDirArgs :
         call = [c \in CallIds |-> IF c = 1 THEN Frame(pdf, <<>>, out) ELSE Idle]
    /\ NoApp

NextPdf == Pdf_Step(1)

SpecPdf == InitPdf /\ [][NextPdf]_vars

-----------------------------------------------------------------------------
(* Two conversions of tab 1 whose workers overlap *)

PagesA == << RGBImage(<< <<0, 0, 0>> >>), RGBImage(<< <<1, 1, 1>> >>) >>
PagesB == << RGBImage(<< <<2, 2, 2>> >>), RGBImage(<< White >>) >>

RaceFs ==
    RootFs @@ (default_pdf :> FileNode(PdfData(PagesA)))
           @@ (<<"/", "a">> :> FileNode(PdfData(PagesB)))

InitRace ==
    /\ convert_from_path = "installed"
    /\ fs = RaceFs
    /\ fs0 = fs
    /\ call = [c \in CallIds |-> Idle]
    /\ comb = Ready
    /\ AppInit(fs)

NextRace ==
    \/ browse_pdf
    \/ start_pdf_to_images
    \/ \E c \in CallIds : W_PdfStep(c) \/ WrapperStep(c)

SpecRace == InitRace /\ [][NextRace]_vars

-----------------------------------------------------------------------------
(* One call of a combiner on an arbitrary small input directory *)

InitCombine ==
    /\ convert_from_path = "installed"
    /\ fs \in CombFsChoices
    /\ fs0 = fs
    /\ call = [c \in CallIds |-> Idle]
    /\ comb = Ready
    /\ NoApp

NextCombine == Call_images_to_pdf \/ Call_images_to_pdf_from_files

SpecCombine == InitCombine /\ [][NextCombine]_vars

\* the arguments and the source PDF of the call under study
ThePdfPath == Abspath(call[1].pdf_path)
TheOutDir == Abspath(call[1].output_dir)
ThePdfPages == fs0[ThePdfPath].data.pages

\* "page_<n>.png", written out for the one-digit page numbers
PageFile(n) == <<"p", "a", "g", "e", "_", Digits[n + 1], ".", "p", "n", "g">>
PagePath(n) == TheOutDir \o <<"/">> \o PageFile(n)

\* C1: a call that returns on a K-page PDF has written exactly page_1.png ..
\* page_K.png, in that order, page_n.png holds the n-th page of the PDF,
\* nothing else in the file system changed, and the call returns K.
C1_PagesWritten ==
    call[1].pc = "returned" =>
        LET K == Len(ThePdfPages)
        IN  /\ call[1].ret = K
            /\ call[1].saved = [n \in 1..K |-> PageFile(n)]
            /\ \A n \in 1..K : /\ PagePath(n) \in DOMAIN fs
                                /\ fs[PagePath(n)] = FileNode(PngData(ThePdfPages[n]))
            /\ \A p \in DOMAIN fs0 : p \notin {PagePath(n) : n \in 1..K} => fs[p] = fs0[p]
            /\ DOMAIN fs \ DOMAIN fs0 \subseteq
                   {PagePath(n) : n \in 1..K} \cup Ancestors(TheOutDir)

C1_Witness ==
    /\ call[1].pc = "returned"
    /\ call[1].ret = MaxPages
    /\ ThePdfPages[1] # ThePdfPages[2]
    /\ PagePath(1) \in DOMAIN fs0

\* C2: when the PDF path is not an existing file the call raises
\* FileNotFoundError and the file system is what it was before the call.
C2_MissingPdfTouchesNothing ==
    (call[1].pc # "L35" /\ ~isfile(fs0, ThePdfPath)) =>
        /\ call[1].pc = "raised"
        /\ call[1].exc = "FileNotFoundError"
        /\ fs = fs0

C2_Witness ==
    /\ call[1].pc = "raised"
    /\ ~isfile(fs0, ThePdfPath)
    /\ ~isdir(fs0, TheOutDir) /\ makedirs_ok(fs0, TheOutDir)

\* C8: when saving page j fails the call is aborted without a return value,
\* page_1.png .. page_(j-1).png written by the call stay on disk with their
\* new content, and no page after j is written.
C8_NoCleanup ==
    (call[1].pc = "raised" /\ call[1].counter >= 1) =>
        LET j == call[1].counter
        IN  /\ call[1].ret = -1
            /\ call[1].saved = [n \in 1..(j - 1) |-> PageFile(n)]
            /\ \A n \in 1..(j - 1) :
                  /\ PagePath(n) \in DOMAIN fs
                  /\ fs[PagePath(n)] = FileNode(PngData(ThePdfPages[n]))
            /\ \A n \in (j + 1)..(MaxPages + 1) :
                  IF PagePath(n) \in DOMAIN fs0
                  THEN PagePath(n) \in DOMAIN fs /\ fs[PagePath(n)] = fs0[PagePath(n)]
                  ELSE PagePath(n) \notin DOMAIN fs

C8_Witness ==
    /\ call[1].pc = "raised"
    /\ call[1].counter = 2
    /\ Len(call[1].pages) >= 2
    /\ fs[PagePath(2)] = FileNode(PartialData)
    /\ PagePath(1) \in DOMAIN fs0

-----------------------------------------------------------------------------
(* Properties of the combiners *)

DirDone == comb.pc # "ready" /\ comb.fn = "images_to_pdf"
ListDone == comb.pc # "ready" /\ comb.fn = "images_to_pdf_from_files"
CombDir == Abspath(comb.images_dir)
TheOutPdf == Abspath(comb.output_pdf)

\* a name ends with an accepted extension, letter case disregarded
Matches(n, exts) == EndsWithAny(Lower(n), [i \in DOMAIN exts |-> Lower(exts[i])])

\* the entries of the input directory with an accepted extension
Sel == {n \in listdir(fs0, CombDir) : Matches(n, comb.exts)}

Decodable(p) == isfile(fs0, p) /\ fs0[p].data.type = "png"
SourceImage(p) == fs0[p].data.image

\* C3: a combiner called with zero matching inputs raises FileNotFoundError
\* and leaves the file system as it was: an existing output file is
\* unchanged and the parent directory of the output is not created.
C3_EmptyInputWritesNothing ==
    (\/ DirDone /\ isdir(fs0, CombDir) /\ Sel = {}
     \/ ListDone /\ comb.file_paths = <<>>) =>
        /\ comb.pc = "raised"
        /\ comb.exc = "FileNotFoundError"
        /\ fs = fs0

C3_Witness ==
    /\ \/ DirDone /\ isdir(fs0, CombDir) /\ Sel = {} /\ listdir(fs0, CombDir) # {}
       \/ ListDone /\ comb.file_paths = <<>>
    /\ ~isdir(fs0, Dirname(TheOutPdf))
    /\ comb.pc = "raised"

\* the selected names in ascending order of plain string comparison
Ascending == CHOOSE e \in Listings(Sel) : \A i, j \in DOMAIN e : i < j => StrLess(e[i], e[j])

\* C4: on a directory whose entries with an accepted extension are N >= 1
\* decodable images, images_to_pdf writes a PDF of exactly N pages, page i
\* being the normalised image of the i-th name in ascending string order,
\* whatever the order of the directory listing.
C4_DirectoryOrder ==
    (/\ DirDone /\ comb.exts = StdExts /\ isdir(fs0, CombDir)
     /\ Sel # {} /\ \A n \in Sel : Decodable(Join(CombDir, n))
     /\ comb.exc # "OSError") =>
        /\ comb.pc = "returned"
        /\ comb.ret = TheOutPdf
        /\ fs[TheOutPdf].data.type = "pdf"
        /\ Len(fs[TheOutPdf].data.pages) = Cardinality(Sel)
        /\ \A i \in 1..Cardinality(Sel) :
              fs[TheOutPdf].data.pages[i] = Normalize(SourceImage(Join(CombDir, Ascending[i])))

C4_Witness ==
    /\ DirDone /\ comb.pc = "returned"
    /\ Cardinality(Sel) = MaxFiles
    /\ StrLess(comb.listing[2], comb.listing[1])
    /\ fs[TheOutPdf].data.pages[1] # fs[TheOutPdf].data.pages[2]

\* C5: on a non-empty list of N decodable image paths,
\* images_to_pdf_from_files writes a PDF of exactly N pages, page i being the
\* normalised i-th list element: list order, repeated paths repeated.
C5_ListOrder ==
    (/\ ListDone /\ comb.file_paths # <<>>
     /\ \A i \in DOMAIN comb.file_paths : Decodable(comb.file_paths[i])
     /\ comb.exc # "OSError") =>
        /\ comb.pc = "returned"
        /\ comb.ret = TheOutPdf
        /\ fs[TheOutPdf].data.type = "pdf"
        /\ Len(fs[TheOutPdf].data.pages) = Len(comb.file_paths)
        /\ \A i \in DOMAIN comb.file_paths :
              fs[TheOutPdf].data.pages[i] = Normalize(SourceImage(comb.file_paths[i]))

C5_Witness ==
    /\ ListDone /\ comb.pc = "returned"
    /\ Len(comb.file_paths) = MaxFiles
    /\ StrLess(comb.file_paths[2], comb.file_paths[1])
    /\ fs[TheOutPdf].data.pages[1] # fs[TheOutPdf].data.pages[2]

\* the opacity (0..255) and the colour of pixel k of a source image
SourceAlpha(im, k) ==
    CASE im.mode = "RGBA" -> im.data[k][4]
      [] im.mode = "LA" -> im.data[k][2]
      [] im.mode = "P" -> IF im.data[k][1] = im.info["transparency"] THEN 0 ELSE 255
SourceColour(im, k) == ConvertRGB(im).data[k]

\* C6: in a PDF a combiner wrote, the page of an image with an alpha channel
\* or a palette transparency entry is the image over opaque white, same
\* size: fully transparent pixels are white, fully opaque ones keep their
\* colour; the page of any other image is its three-channel conversion.
C6_TransparencyOverWhite ==
    comb.pc = "returned" =>
        \A i \in DOMAIN comb.opened :
            LET src == SourceImage(comb.opened[i])
                page == fs[TheOutPdf].data.pages[i]
            IN  IF HasTransparency(src)
                THEN /\ page.mode = "RGB"
                     /\ page.size = src.size
                     /\ \A k \in DOMAIN src.data :
                          /\ SourceAlpha(src, k) = 0 => page.data[k] = White
                          /\ SourceAlpha(src, k) = 255 => page.data[k] = SourceColour(src, k)
                ELSE page = ConvertRGB(src)

\* C7: images_to_pdf selects exactly the files of the directory whose name
\* ends, letter case disregarded, with an accepted extension, and raises
\* FileNotFoundError exactly when that selection is empty.
C7_SelectionBySuffix ==
    (DirDone /\ isdir(fs0, CombDir)) =>
        LET files == {n \in Sel : isfile(fs0, Join(CombDir, n))}
        IN  /\ comb.exc = "FileNotFoundError" <=> files = {}
            /\ files # {} => {Basename(comb.opened[i]) : i \in DOMAIN comb.opened} = files

-----------------------------------------------------------------------------
(* Properties of the application *)

Converting(t) == status[t] = StatusText("Converting...")

Started(c) == worker[c].pc # "none"
Finished(c) == worker[c].pc = "finished"

\* the user could start a conversion on tab t right now
StartsConversion(t) ==
    IF t = 1 THEN start_pdf_to_images /\ status'[1] = StatusText("Converting...")
    ELSE start_images_to_pdf /\ status'[2] = StatusText("Converting...")

ValidInput(t) ==
    IF t = 1 THEN Strip(entry.pdf_entry) # <<>> /\ Strip(entry.out_folder_entry) # <<>>
    ELSE Strip(entry.input_entry) # <<>> /\ Strip(entry.output_pdf_entry) # <<>>

\* what holds of the workers in every state
C9_Safety ==
    /\ \A c \in CallIds : Finished(c) =>
          \/ ConvReturned(c) /\ worker[c].wrote = "Done"
          \/ ConvRaised(c) /\ worker[c].wrote = "Error"
    /\ \A c \in CallIds : Started(c) =>
          worker[c].pc \in {"convert", "reveal", "set_error", "finished"}
    /\ \A t \in 1..2 :
          /\ Converting(t) => \E c \in CallIds : Started(c) /\ worker[c].tab = t
                                                 /\ worker[c].wrote = ""
          /\ status[t] \in {StatusText("Ready"), StatusText("Converting...")}
                \cup {DoneStatus(c) : c \in {k \in CallIds : Started(k) /\ worker[k].tab = t
                                                             /\ ConvReturned(k)}}
                \cup {ErrorStatus(ConvExc(c)) : c \in {k \in CallIds : Started(k)
                                                   /\ worker[k].tab = t /\ ConvRaised(k)}}
          /\ (NextWorker # 0 /\ ValidInput(t)) => ENABLED StartsConversion(t)

\* C9: a conversion started from the shell shows "Converting..."; the worker
\* catches whatever the converter raises, so the status leaves
\* "Converting..." and the worker ends having shown "Done ..." exactly when
\* the converter returned and "Error: ..." exactly when it raised, a failed
\* reveal of the output folder included; a further conversion can be started.
C9_StatusSettles ==
    /\ []C9_Safety
    /\ \A t \in 1..2 : Converting(t) ~> ~Converting(t)

C9_Witness ==
    \E c, k \in CallIds :
        /\ Finished(c) /\ worker[c].tab = 1 /\ ConvRaised(c) /\ worker[c].wrote = "Error"
        /\ Finished(k) /\ worker[k].tab = 2 /\ ConvReturned(k) /\ worker[k].open_when_done
        /\ worker[k].revealed = <<>>
        /\ status[2] = DoneStatus(k)

\* the file system a call of convert_pdf_to_images that returned leaves when
\* it runs alone on file system f: worker c's call, every page written
RunAlone(f, c) ==
    LET out == call[c].output_dir
        g == IF isdir(f, out) THEN f ELSE makedirs(f, out)
        target(i) == Join(out, img_name(i))
        written == {target(i) : i \in DOMAIN call[c].pages}
    IN  [q \in DOMAIN g \cup written |->
            IF q \in written
            THEN FileNode(PngData(call[c].pages[CHOOSE i \in DOMAIN call[c].pages : target(i) = q]))
            ELSE g[q]]

\* C10: two conversions started from the shell whose workers overlap end, when
\* both converters returned, with the output locations and the status that
\* running one call after the other, in one of the two orders, would leave.
C10_SerialEquivalence ==
    \A c, k \in CallIds :
        ( /\ c # k /\ Finished(c) /\ Finished(k)
          /\ worker[c].tab = 1 /\ worker[k].tab = 1
          /\ ConvReturned(c) /\ ConvReturned(k)
          /\ \A j \in CallIds \ {c, k} : ~Started(j) )
        => \/ fs = RunAlone(RunAlone(fs0, c), k) /\ status[1] = DoneStatus(k)
           \/ fs = RunAlone(RunAlone(fs0, k), c) /\ status[1] = DoneStatus(c)

=============================================================================
